---- MODULE Spec2Model ----
(***************************************************************************)
(* ntfsvolume (ntfsprogs/ntfsvolume.c): option parsing, the mount / info / *)
(* umount sequence of main(), and the geometry arithmetic of info().       *)
(*                                                                         *)
(* argv is the argument vector without argv[0]; the model's index of a     *)
(* token equals the C index of the same token, so optind has the value it  *)
(* has in the C program.                                                   *)
(***************************************************************************)
EXTENDS Integers, Sequences, FiniteSets, TLC

\* ---------------------------------------------------------------- bounds
MaxArgs == 3
MaxSizeBits == 3
MaxClusters == 40
MaxInitSize == 9
MaxRecordBits == 2
U64Bits == 12

\* ------------------------------------------------------------- constants
NULL == "NULL"
NoVolume == <<>>
NTFS_MNT_RDONLY == "NTFS_MNT_RDONLY"
NTFS_MNT_RECOVER == "NTFS_MNT_RECOVER"
NTFS_LOG_LEVEL_QUIET == "NTFS_LOG_LEVEL_QUIET"
NTFS_LOG_LEVEL_VERBOSE == "NTFS_LOG_LEVEL_VERBOSE"

\* Classes of command-line tokens, by what getopt_long does with them under
\* sopt "-c:F:fh?I:ilqs:vV" and lopt: a non-option (returned as 1), the five
\* recognised flags, an option that reaches the default / '?' branch with a
\* text that is not a --log- option, a --log- option, and the "--" terminator.
Devices == {"dev1", "dev2"}
OptForce == "-f"
OptHelp == "-h"
OptQuiet == "-q"
OptVerbose == "-v"
OptVersion == "-V"
OptUnknown == "-x"
OptLog == "--log-"
Terminator == "--"
Tokens == Devices \cup {OptForce, OptHelp, OptQuiet, OptVerbose, OptVersion,
                        OptUnknown, OptLog, Terminator}

RECURSIVE SeqsUpTo(_, _)
SeqsUpTo(S, n) ==
    IF n = 0 THEN {<<>>}
    ELSE LET shorter == SeqsUpTo(S, n - 1)
         IN  shorter \cup {Append(s, t) : s \in {x \in shorter : Len(x) = n - 1}, t \in S}

\* after "--" getopt_long takes every token for an operand, whatever it
\* looks like, so only device names are listed there
OperandsAfterTerminator(av) ==
    \A i \in 1..Len(av) : \A j \in 1..Len(av) :
        (av[i] = Terminator /\ j > i) => av[j] \in Devices

ArgLists == {av \in SeqsUpTo(Tokens, MaxArgs) : OperandsAfterTerminator(av)}

\* ------------------------------------------------ fixed-width arithmetic
RECURSIVE Pow2(_)
Pow2(n) == IF n = 0 THEN 1 ELSE 2 * Pow2(n - 1)

U64(x) == x % Pow2(U64Bits)

\* x << n, one bit at a time, truncated to the width of the result type
RECURSIVE Shl(_, _)
Shl(x, n) == IF n = 0 THEN U64(x) ELSE U64(2 * Shl(x, n - 1))

\* x >> n, one bit at a time
RECURSIVE Shr(_, _)
Shr(x, n) == IF n = 0 THEN x ELSE Shr(x, n - 1) \div 2

\* -------------------------------------------------------- volume handles
\* What a mounted ntfs_volume exposes to info(): sizes are powers of two
\* and the _bits fields are their logarithms.
VolumeHandles ==
    { [ sector_size |-> Pow2(sb), cluster_size |-> Pow2(cb),
        sector_size_bits |-> sb, cluster_size_bits |-> cb,
        nr_clusters |-> n, initialized_size |-> i,
        mft_record_size_bits |-> r ] :
        sb \in 0..MaxSizeBits, cb \in 0..MaxSizeBits, n \in 0..MaxClusters,
        i \in 0..MaxInitSize, r \in 0..MaxRecordBits }

ValidHandles == { h \in VolumeHandles : h.cluster_size_bits >= h.sector_size_bits }

\* the handles utils_mount_volume hands to main() in the whole-program runs
MountableHandles ==
    { h \in ValidHandles : /\ h.nr_clusters = MaxClusters
                           /\ h.initialized_size = MaxInitSize
                           /\ h.mft_record_size_bits = MaxRecordBits }

VARIABLES argv, optind, pc, opts, err, ver, help, levels, res,
          vol, result, exitStatus, printed,
          usageCalls, versionCalls, logRejects,
          mountCalls, infoCalls, umountCalls, umountRes

vars == <<argv, optind, pc, opts, err, ver, help, levels, res,
          vol, result, exitStatus, printed,
          usageCalls, versionCalls, logRejects,
          mountCalls, infoCalls, umountCalls, umountRes>>

parseVars == <<opts, err, ver, help, levels, logRejects>>
mainVars == <<res, vol, result, exitStatus, printed, usageCalls, versionCalls,
              mountCalls, infoCalls, umountCalls, umountRes>>

\* the log levels of the logging subsystem before any option is parsed:
\* informational ("quiet" level) output on, verbose output off
DefaultLevels == {NTFS_LOG_LEVEL_QUIET}

\* what an accepted --log- option can do to the two levels parse_options
\* reads back: nothing, enable the verbose level, enable the quiet level
LogOptionEffects == {{}, {NTFS_LOG_LEVEL_VERBOSE}, {NTFS_LOG_LEVEL_QUIET}}

Init ==
    /\ argv \in ArgLists
    /\ optind = 1
    /\ pc = "scan"
    /\ opts = [device |-> NULL, quiet |-> 0, verbose |-> 0, force |-> 0]
    /\ err = 0 /\ ver = 0 /\ help = 0
    /\ levels = DefaultLevels
    /\ res = -1
    /\ vol = NoVolume
    /\ result = 1
    /\ exitStatus = -1
    /\ printed = <<>>
    /\ usageCalls = 0 /\ versionCalls = 0 /\ logRejects = 0
    /\ mountCalls = <<>>
    /\ infoCalls = 0 /\ umountCalls = 0 /\ umountRes = 0

\* ------------------------------------------------------- parse_options
\* getopt_long has a token to return: there is one left and it is not "--"
MoreOptions == pc = "scan" /\ optind <= Len(argv) /\ argv[optind] # Terminator

\* argv[optind-1] once getopt_long has stepped over the token
Current == argv[optind]

Advance == /\ optind' = optind + 1
           /\ UNCHANGED <<argv, pc>>
           /\ UNCHANGED mainVars

NonOptionArgInverted(device, tok, e) ==
    IF device # NULL THEN [device |-> tok, err |-> e]
    ELSE [device |-> NULL, err |-> e + 1]

NonOptionArgLastWins(device, tok, e) == [device |-> tok, err |-> e]

\* case 1
NonOptionArg(device, tok, e) ==
    IF device = NULL THEN [device |-> tok, err |-> e]
    ELSE [device |-> NULL, err |-> e + 1]

NonOption ==
    /\ MoreOptions /\ Current \in Devices
    /\ LET r == NonOptionArg(opts.device, Current, err)
       IN  /\ opts' = [opts EXCEPT !.device = r.device]
           /\ err' = r.err
    /\ UNCHANGED <<ver, help, levels, logRejects>>
    /\ Advance

\* case 'f'
Force ==
    /\ MoreOptions /\ Current = OptForce
    /\ opts' = [opts EXCEPT !.force = @ + 1]
    /\ UNCHANGED <<err, ver, help, levels, logRejects>>
    /\ Advance

\* case 'h'
Help ==
    /\ MoreOptions /\ Current = OptHelp
    /\ help' = help + 1
    /\ UNCHANGED <<opts, err, ver, levels, logRejects>>
    /\ Advance

\* case 'q'
Quiet ==
    /\ MoreOptions /\ Current = OptQuiet
    /\ opts' = [opts EXCEPT !.quiet = @ + 1]
    /\ levels' = levels \ {NTFS_LOG_LEVEL_QUIET}
    /\ UNCHANGED <<err, ver, help, logRejects>>
    /\ Advance

\* case 'v'
Verbose ==
    /\ MoreOptions /\ Current = OptVerbose
    /\ opts' = [opts EXCEPT !.verbose = @ + 1]
    /\ levels' = levels \cup {NTFS_LOG_LEVEL_VERBOSE}
    /\ UNCHANGED <<err, ver, help, logRejects>>
    /\ Advance

\* case 'V'
Version ==
    /\ MoreOptions /\ Current = OptVersion
    /\ ver' = ver + 1
    /\ UNCHANGED <<opts, err, help, levels, logRejects>>
    /\ Advance

\* case '?' on a --log- option: ntfs_log_parse_option accepts it (and may
\* enable a level) or rejects it
LogOption ==
    /\ MoreOptions /\ Current = OptLog
    /\ \/ \E eff \in LogOptionEffects :
            /\ levels' = levels \cup eff
            /\ UNCHANGED <<err, logRejects>>
       \/ /\ err' = err + 1
          /\ logRejects' = logRejects + 1
          /\ UNCHANGED levels
    /\ UNCHANGED <<opts, ver, help>>
    /\ Advance

\* case '?' on anything else, and default
UnknownOption ==
    /\ MoreOptions /\ Current = OptUnknown
    /\ err' = err + 1
    /\ UNCHANGED <<opts, ver, help, levels, logRejects>>
    /\ Advance

NoConflict(quiet, verbose) == 0

ConflictError(quiet, verbose) == IF quiet # 0 /\ verbose # 0 THEN 1 ELSE 0

MissingDevice(device) == IF device = NULL THEN 1 ELSE 0

UsageOnHelpOnly(h, e) == h # 0

UsageNeeded(h, e) == h # 0 \/ e # 0

ParseResultHelpFirst(e, h, v) ==
    IF h # 0 \/ v # 0 THEN 0 ELSE IF e # 0 THEN 1 ELSE -1

\* tri-state 0 : done, 1 : error, -1 : proceed
ParseResult(e, h, v) ==
    IF e # 0 THEN 1 ELSE IF h # 0 \/ v # 0 THEN 0 ELSE -1

\* getopt_long returned -1 (end of argv, or "--"): the rest of
\* parse_options, from the log-level sync to the return
ParseFinish ==
    /\ pc = "scan" /\ ~MoreOptions
    /\ LET verbose1 == opts.verbose
                       + (IF NTFS_LOG_LEVEL_VERBOSE \in levels THEN 1 ELSE 0)
           quiet1 == opts.quiet
                     + (IF NTFS_LOG_LEVEL_QUIET \notin levels THEN 1 ELSE 0)
           hv == help # 0 \/ ver # 0
           quiet2 == IF hv THEN 0 ELSE quiet1
           err2 == IF hv THEN err
                   ELSE err + MissingDevice(opts.device)
                            + ConflictError(quiet1, verbose1)
       IN  /\ opts' = [opts EXCEPT !.quiet = quiet2, !.verbose = verbose1]
           /\ err' = err2
           /\ versionCalls' = versionCalls + (IF ver # 0 THEN 1 ELSE 0)
           /\ usageCalls' = usageCalls + (IF UsageNeeded(help, err2) THEN 1 ELSE 0)
           /\ res' = ParseResult(err2, help, ver)
    /\ pc' = "parsed"
    /\ UNCHANGED <<argv, optind, ver, help, levels, logRejects, vol, result,
                   exitStatus, printed, mountCalls, infoCalls, umountCalls,
                   umountRes>>

\* ------------------------------------------------------------------ info
InfoWrongShift(v) ==
    LET cb == v.cluster_size_bits
    IN  [ out |-> << <<"bytes per sector", U64(v.sector_size)>>,
                     <<"bytes per cluster", U64(v.cluster_size)>>,
                     <<"sectors per cluster", Shl(1, cb)>>,
                     <<"bytes per volume", Shl(v.nr_clusters, cb)>>,
                     <<"sectors per volume", U64(v.nr_clusters)>>,
                     <<"clusters per volume", U64(Shr(v.nr_clusters, cb))>>,
                     <<"initialized mft records",
                       U64(Shr(v.initialized_size, v.mft_record_size_bits))>> >>,
          ret |-> 0 ]

Info(v) ==
    LET cb == v.cluster_size_bits
        sb == v.sector_size_bits
        cps == cb - sb
        a == U64(v.sector_size)
        b == U64(v.cluster_size)
        c == Shl(1, cps)
        d == Shl(v.nr_clusters, cb)
        e == U64(v.nr_clusters)
        f == U64(Shr(v.nr_clusters, cps))
        g == U64(Shr(v.initialized_size, v.mft_record_size_bits))
    IN  [ out |-> << <<"bytes per sector", a>>,
                     <<"bytes per cluster", b>>,
                     <<"sectors per cluster", c>>,
                     <<"bytes per volume", d>>,
                     <<"sectors per volume", e>>,
                     <<"clusters per volume", f>>,
                     <<"initialized mft records", g>> >>,
          ret |-> 0 ]

\* ------------------------------------------------------------------ main
MountFlagsForceOnce(force) ==
    {NTFS_MNT_RDONLY} \cup (IF force = 1 THEN {NTFS_MNT_RECOVER} ELSE {})

MountFlags(force) ==
    {NTFS_MNT_RDONLY} \cup (IF force # 0 THEN {NTFS_MNT_RECOVER} ELSE {})

ReturnOnDoneOnly ==
    /\ pc = "parsed" /\ res = 0
    /\ exitStatus' = res
    /\ pc' = "exit"
    /\ UNCHANGED <<argv, optind, res, vol, result, printed, usageCalls,
                   versionCalls, mountCalls, infoCalls, umountCalls, umountRes>>
    /\ UNCHANGED parseVars

\* if (res >= 0) return (res);
ReturnParsed ==
    /\ pc = "parsed" /\ res >= 0
    /\ exitStatus' = res
    /\ pc' = "exit"
    /\ UNCHANGED <<argv, optind, res, vol, result, printed, usageCalls,
                   versionCalls, mountCalls, infoCalls, umountCalls, umountRes>>
    /\ UNCHANGED parseVars

MountVolumeFailureIgnored ==
    /\ pc = "parsed" /\ ~(res >= 0)
    /\ mountCalls' = Append(mountCalls,
                            [device |-> opts.device, flags |-> MountFlags(opts.force)])
    /\ \/ /\ vol' = NoVolume
          /\ pc' = "exit"
          /\ exitStatus' = 0
       \/ /\ \E h \in MountableHandles : vol' = <<h>>
          /\ pc' = "info"
          /\ UNCHANGED exitStatus
    /\ UNCHANGED <<argv, optind, res, result, printed, usageCalls, versionCalls,
                   infoCalls, umountCalls, umountRes>>
    /\ UNCHANGED parseVars

\* vol = utils_mount_volume(...); if (!vol) return 1;
MountVolume ==
    /\ pc = "parsed" /\ ~(res >= 0)
    /\ mountCalls' = Append(mountCalls,
                            [device |-> opts.device, flags |-> MountFlags(opts.force)])
    /\ \/ /\ vol' = NoVolume
          /\ pc' = "exit"
          /\ exitStatus' = 1
       \/ /\ \E h \in MountableHandles : vol' = <<h>>
          /\ pc' = "info"
          /\ UNCHANGED exitStatus
    /\ UNCHANGED <<argv, optind, res, result, printed, usageCalls, versionCalls,
                   infoCalls, umountCalls, umountRes>>
    /\ UNCHANGED parseVars

\* result = info(vol);
InfoCall ==
    /\ pc = "info"
    /\ LET r == Info(vol[1])
       IN  /\ printed' = r.out
           /\ result' = r.ret
    /\ infoCalls' = infoCalls + 1
    /\ pc' = "umount"
    /\ UNCHANGED <<argv, optind, res, vol, exitStatus, usageCalls, versionCalls,
                   mountCalls, umountCalls, umountRes>>
    /\ UNCHANGED parseVars

UmountStatusReturned ==
    /\ pc = "umount"
    /\ umountCalls' = umountCalls + 1
    /\ \E r \in {0, -1} : umountRes' = r /\ exitStatus' = (IF r = 0 THEN result ELSE 1)
    /\ pc' = "exit"
    /\ UNCHANGED <<argv, optind, res, vol, result, printed, usageCalls,
                   versionCalls, mountCalls, infoCalls>>
    /\ UNCHANGED parseVars

\* ntfs_umount(vol, FALSE); return result;
Umount ==
    /\ pc = "umount"
    /\ umountCalls' = umountCalls + 1
    /\ \E r \in {0, -1} : umountRes' = r
    /\ exitStatus' = result
    /\ pc' = "exit"
    /\ UNCHANGED <<argv, optind, res, vol, result, printed, usageCalls,
                   versionCalls, mountCalls, infoCalls>>
    /\ UNCHANGED parseVars

Next ==
    \/ NonOption \/ Force \/ Help \/ Quiet \/ Verbose \/ Version
    \/ LogOption \/ UnknownOption \/ ParseFinish
    \/ ReturnParsed \/ MountVolume \/ InfoCall \/ Umount

Spec == Init /\ [][Next]_vars

\* ----------------------------------- info() on its own, over all handles
InfoInit ==
    /\ argv = <<"dev1">>
    /\ optind = 2
    /\ pc = "info"
    /\ opts = [device |-> "dev1", quiet |-> 0, verbose |-> 0, force |-> 0]
    /\ err = 0 /\ ver = 0 /\ help = 0
    /\ levels = DefaultLevels
    /\ res = -1
    /\ \E h \in ValidHandles : vol = <<h>>
    /\ result = 1
    /\ exitStatus = -1
    /\ printed = <<>>
    /\ usageCalls = 0 /\ versionCalls = 0 /\ logRejects = 0
    /\ mountCalls = << [device |-> "dev1", flags |-> MountFlags(0)] >>
    /\ infoCalls = 0 /\ umountCalls = 0 /\ umountRes = 0

InfoNext == InfoCall \/ Umount

SpecInfo == InfoInit /\ [][InfoNext]_vars

\* ============================================================ properties
\* index of the "--" terminator, or Len(argv) + 1: getopt_long scans the
\* tokens before it and nothing after it
ScanStop ==
    IF \E i \in 1..Len(argv) : argv[i] = Terminator
    THEN CHOOSE i \in 1..Len(argv) :
            /\ argv[i] = Terminator
            /\ \A j \in 1..(i - 1) : argv[j] # Terminator
    ELSE Len(argv) + 1

ScannedIdx == 1..(ScanStop - 1)

\* the flag is on the command line (as an option, i.e. before any "--")
Given(tok) == \E i \in ScannedIdx : argv[i] = tok

HelpOrVersionGiven == Given(OptHelp) \/ Given(OptVersion)

\* non-option tokens getopt_long returns
ScannedDevices == Cardinality({i \in ScannedIdx : argv[i] \in Devices})

\* non-option tokens on the command line: those, and every token after "--"
NonOptionIdx ==
    {i \in ScannedIdx : argv[i] \in Devices} \cup {i \in 1..Len(argv) : i > ScanStop}

NonOptionTokens == Cardinality(NonOptionIdx)

LastScannedDevice ==
    argv[CHOOSE i \in ScannedIdx :
            /\ argv[i] \in Devices
            /\ \A j \in ScannedIdx : argv[j] \in Devices => j <= i]

Parsed == pc # "scan"
Exited == pc = "exit"

\* the value info() printed on the line with this label
Line(label) ==
    LET i == CHOOSE k \in 1..Len(printed) : printed[k][1] = label
    IN  printed[i][2]

\* ---- C1: the 'sectors per volume' line shows nr_clusters *
\* sectors_per_cluster and the 'clusters per volume' line shows nr_clusters.
C1_VolumeTotals ==
    infoCalls = 1 =>
        LET v == vol[1]
        IN  /\ Line("sectors per volume")
                 = v.nr_clusters * (v.cluster_size \div v.sector_size)
            /\ Line("clusters per volume") = v.nr_clusters

ScanErrorGiven == Given(OptUnknown) \/ logRejects > 0 \/ ScannedDevices >= 2

C3_QuietVerboseAlwaysFails ==
    (Exited /\ Given(OptQuiet) /\ Given(OptVerbose)) =>
        /\ res = 1
        /\ exitStatus = 1

\* ---- C3 amended: -q together with -v, and no help or version flag, gives
\* result 1 and exit status 1.
C3_QuietVerboseFails ==
    (Given(OptQuiet) /\ Given(OptVerbose) /\ ~HelpOrVersionGiven) =>
        /\ Parsed => res = 1
        /\ Exited => exitStatus = 1

C3_Witness ==
    /\ Exited /\ Given(OptVerbose) /\ Given(OptQuiet)
    /\ argv[1] = OptVerbose
    /\ opts.device \in Devices
    /\ err = 1 /\ exitStatus = 1

\* what C4 promises once its precondition holds
ProceedsWith(tok) ==
    /\ Parsed => (res = -1 /\ opts.device = tok)
    /\ Exited => (Len(mountCalls) = 1 /\ mountCalls[1].device = tok)

C5_TokenCountFails ==
    (Parsed /\ ~HelpOrVersionGiven /\ NonOptionTokens # 1) =>
        /\ res = 1
        /\ mountCalls = <<>>

\* ---- C5 amended: no help/version flag and a number of non-option tokens in
\* front of any "--" other than one: result 1 and no mount; the device slot
\* is empty after an even number of them and holds the last one after an odd
\* number.
C5_ScannedTokenCountFails ==
    (Parsed /\ ~HelpOrVersionGiven /\ ScannedDevices # 1) =>
        /\ res = 1
        /\ mountCalls = <<>>
        /\ Exited => exitStatus = 1
        /\ opts.device = (IF ScannedDevices % 2 = 0 THEN NULL
                          ELSE LastScannedDevice)

C5_Witness ==
    /\ Exited
    /\ argv = <<"dev1", "dev2", "dev1">>
    /\ opts.device = "dev1" /\ err = 1
    /\ exitStatus = 1 /\ mountCalls = <<>>

\* ---- C6: the error count never decreases, and once it is nonzero no mount
\* is ever called, usage is printed when parsing ends, and the result and the
\* exit status are 1.
C6_ErrorState ==
    err > 0 =>
        /\ mountCalls = <<>>
        /\ Parsed => (usageCalls = 1 /\ res = 1)
        /\ Exited => exitStatus = 1

C6_ErrorsAreFatal == [][err' >= err]_vars /\ []C6_ErrorState

C6_Witness ==
    /\ Exited
    /\ logRejects = 1 /\ Given(OptUnknown) /\ err = 3
    /\ usageCalls = 1 /\ exitStatus = 1

\* ---- C7: ntfs_umount is called once if the mount returned a handle and
\* never otherwise, only after info() has returned, and the exit status is
\* info()'s status whatever the unmount reports.
C7_UmountOnceAfterInfo ==
    /\ umountCalls <= 1
    /\ umountCalls = 1 => (vol # NoVolume /\ infoCalls = 1 /\ printed # <<>>)
    /\ pc = "umount" => infoCalls = 1
    /\ Exited => /\ umountCalls = 1 <=> vol # NoVolume
                 /\ vol # NoVolume => (exitStatus = result /\ exitStatus = 0)

C7_Witness ==
    /\ Exited /\ vol # NoVolume
    /\ umountCalls = 1 /\ umountRes = -1
    /\ exitStatus = 0

\* ---- C8: after 'proceed' the mount is called exactly once; when it
\* returns no handle the exit status is 1 and neither info() nor ntfs_umount
\* runs, so nothing is printed.
C8_MountOnceFailureFatal ==
    /\ Len(mountCalls) <= 1
    /\ (Exited /\ res = -1) =>
          /\ Len(mountCalls) = 1
          /\ vol = NoVolume =>
                (exitStatus = 1 /\ infoCalls = 0 /\ umountCalls = 0 /\ printed = <<>>)
    /\ pc \in {"info", "umount"} => Len(mountCalls) = 1

C8_Witness ==
    /\ Exited /\ res = -1
    /\ Len(mountCalls) = 1 /\ vol = NoVolume
    /\ exitStatus = 1 /\ printed = <<>>

\* ---- C9: every mount call carries NTFS_MNT_RDONLY, and NTFS_MNT_RECOVER
\* exactly when at least one -f was given; nothing else changes the flags.
C9_MountFlags ==
    \A i \in 1..Len(mountCalls) :
        mountCalls[i].flags =
            {NTFS_MNT_RDONLY} \cup (IF Given(OptForce) THEN {NTFS_MNT_RECOVER} ELSE {})

C9_Witness ==
    /\ Len(mountCalls) = 1
    /\ argv = <<OptForce, OptForce, "dev1">>
    /\ opts.force = 2
    /\ mountCalls[1].flags = {NTFS_MNT_RDONLY, NTFS_MNT_RECOVER}

\* ---- C10: the shifted values equal the arithmetic ones: sectors per
\* cluster is cluster_size / sector_size, bytes per volume is nr_clusters *
\* cluster_size within the word, initialized mft records is initialized_size
\* divided by the record size; info() returns 0 and does not touch the handle.
C10_InfoValues ==
    infoCalls = 1 =>
        LET v == vol[1]
        IN  /\ Line("sectors per cluster") = v.cluster_size \div v.sector_size
            /\ Line("bytes per volume")
                 = (v.nr_clusters * v.cluster_size) % Pow2(U64Bits)
            /\ Line("initialized mft records")
                 = v.initialized_size \div Pow2(v.mft_record_size_bits)
            /\ Line("bytes per sector") = v.sector_size
            /\ Line("bytes per cluster") = v.cluster_size
            /\ result = 0

C10_ShiftsMatchArithmetic ==
    []C10_InfoValues /\ [][pc = "info" => vol' = vol]_vars

C10_Witness ==
    /\ infoCalls = 1
    /\ vol[1].cluster_size_bits = 3 /\ vol[1].sector_size_bits = 1
    /\ vol[1].nr_clusters = 40
    /\ vol[1].initialized_size = 9 /\ vol[1].mft_record_size_bits = 2
    /\ Line("sectors per cluster") = 4
    /\ Line("bytes per volume") = 320
    /\ Line("initialized mft records") = 2
====
